---- MODULE Spec2Model ----
(***************************************************************************)
(* Geocoding pipeline of the property geocoder: fallback query building,   *)
(* rate-limited lookup with fallback (step2.py), DBSCAN cluster detection  *)
(* (step3.py) and the pipeline driver (app.py).                            *)
(*                                                                         *)
(* Strings are sequences of one-character strings, so that split, strip,   *)
(* upper, lower and concatenation are computed as Python computes them.    *)
(***************************************************************************)
EXTENDS Integers, Sequences, FiniteSets, TLC

VARIABLES
    address,      \* _build_fallback_queries: the argument
    queries,      \* _build_fallback_queries: the returned list
    qpc,          \* "idle" | "input" | "built"
    df,           \* the DataFrame: column name -> list of cells, one per row
    pc,           \* position of the pipeline run
    i,            \* geocode_addresses: index of the row being geocoded (1-based)
    rec_queries,  \* _geocode_with_fallback: the query list of row i
    qi,           \* _geocode_with_fallback: index of the query being tried
    latitudes,    \* geocode_addresses: the four result lists
    longitudes,
    cities,
    zip_codes,
    clock,        \* wall clock, in seconds
    last_call,    \* RateLimiter: time of the last call it let through
    raised,       \* an exception left geocode_addresses
    call_log,     \* history: start times of the lookup calls, newest last (two kept)
    tried,        \* history: the lookups made for row i: query, outcome, times
    returned,     \* history: per finished row, what the lookup gave for it
    points,       \* DBSCAN.fit_predict: the coordinates it is given
    min_samples,  \* DBSCAN: the min_samples parameter
    labels,       \* dbscan_inner: the label of each point, -1 while it has none
    label_num,    \* dbscan_inner: the number of the next cluster
    cpc,          \* "idle" | "fit" | "done"
    store,        \* saved_addresses.csv: the frame as written, column -> list of cells
    address_data, \* addresses: the list handed to the template
    apc           \* "idle" | "ready" | "viewed": position of the web application

varsQ == <<address, queries, qpc>>

varsG == <<df, pc, i, rec_queries, qi, latitudes, longitudes, cities, zip_codes,
           clock, last_call, raised, call_log, tried, returned>>

varsC == <<points, min_samples, labels, label_num, cpc>>

varsA == <<store, address_data, apc>>

vars == <<varsQ, varsG, varsC, varsA>>

----------------------------------------------------------------------------
(* Python str helpers                                                      *)

Lowers ==
    <<"a","b","c","d","e","f","g","h","i","j","k","l","m",
      "n","o","p","q","r","s","t","u","v","w","x","y","z">>

Uppers ==
    <<"A","B","C","D","E","F","G","H","I","J","K","L","M",
      "N","O","P","Q","R","S","T","U","V","W","X","Y","Z">>

Whitespace == {" ", "\t", "\n"}

UpperChar(c) ==
    IF \E k \in 1..26 : Lowers[k] = c
    THEN Uppers[CHOOSE k \in 1..26 : Lowers[k] = c]
    ELSE c

LowerChar(c) ==
    IF \E k \in 1..26 : Uppers[k] = c
    THEN Lowers[CHOOSE k \in 1..26 : Uppers[k] = c]
    ELSE c

\* str.upper()
StrUpper(s) == [k \in 1..Len(s) |-> UpperChar(s[k])]

\* str.lower()
StrLower(s) == [k \in 1..Len(s) |-> LowerChar(s[k])]

\* str.strip(): drop leading and trailing whitespace
StrStrip(s) ==
    LET keep == {k \in 1..Len(s) : s[k] \notin Whitespace}
    IN  IF keep = {} THEN <<>>
        ELSE LET lo == CHOOSE k \in keep : \A j \in keep : k <= j
                 hi == CHOOSE k \in keep : \A j \in keep : k >= j
             IN  SubSeq(s, lo, hi)

\* str.split(","): the pieces between commas, empty pieces kept
RECURSIVE StrSplitComma(_)
StrSplitComma(s) ==
    LET commas == {k \in 1..Len(s) : s[k] = ","}
    IN  IF commas = {} THEN <<s>>
        ELSE LET c == CHOOSE k \in commas : \A j \in commas : k <= j
             IN  <<SubSeq(s, 1, c - 1)>> \o StrSplitComma(SubSeq(s, c + 1, Len(s)))

----------------------------------------------------------------------------
(* step2.py: state table                                                   *)

\* _US_STATES: state name (lower case) -> abbreviation
US_STATES == {
    <<<<"a","l","a","b","a","m","a">>, <<"A","L">>>>,
    <<<<"a","l","a","s","k","a">>, <<"A","K">>>>,
    <<<<"a","r","i","z","o","n","a">>, <<"A","Z">>>>,
    <<<<"a","r","k","a","n","s","a","s">>, <<"A","R">>>>,
    <<<<"c","a","l","i","f","o","r","n","i","a">>, <<"C","A">>>>,
    <<<<"c","o","l","o","r","a","d","o">>, <<"C","O">>>>,
    <<<<"c","o","n","n","e","c","t","i","c","u","t">>, <<"C","T">>>>,
    <<<<"d","e","l","a","w","a","r","e">>, <<"D","E">>>>,
    <<<<"f","l","o","r","i","d","a">>, <<"F","L">>>>,
    <<<<"g","e","o","r","g","i","a">>, <<"G","A">>>>,
    <<<<"h","a","w","a","i","i">>, <<"H","I">>>>,
    <<<<"i","d","a","h","o">>, <<"I","D">>>>,
    <<<<"i","l","l","i","n","o","i","s">>, <<"I","L">>>>,
    <<<<"i","n","d","i","a","n","a">>, <<"I","N">>>>,
    <<<<"i","o","w","a">>, <<"I","A">>>>,
    <<<<"k","a","n","s","a","s">>, <<"K","S">>>>,
    <<<<"k","e","n","t","u","c","k","y">>, <<"K","Y">>>>,
    <<<<"l","o","u","i","s","i","a","n","a">>, <<"L","A">>>>,
    <<<<"m","a","i","n","e">>, <<"M","E">>>>,
    <<<<"m","a","r","y","l","a","n","d">>, <<"M","D">>>>,
    <<<<"m","a","s","s","a","c","h","u","s","e","t","t","s">>, <<"M","A">>>>,
    <<<<"m","i","c","h","i","g","a","n">>, <<"M","I">>>>,
    <<<<"m","i","n","n","e","s","o","t","a">>, <<"M","N">>>>,
    <<<<"m","i","s","s","i","s","s","i","p","p","i">>, <<"M","S">>>>,
    <<<<"m","i","s","s","o","u","r","i">>, <<"M","O">>>>,
    <<<<"m","o","n","t","a","n","a">>, <<"M","T">>>>,
    <<<<"n","e","b","r","a","s","k","a">>, <<"N","E">>>>,
    <<<<"n","e","v","a","d","a">>, <<"N","V">>>>,
    <<<<"n","e","w"," ","h","a","m","p","s","h","i","r","e">>, <<"N","H">>>>,
    <<<<"n","e","w"," ","j","e","r","s","e","y">>, <<"N","J">>>>,
    <<<<"n","e","w"," ","m","e","x","i","c","o">>, <<"N","M">>>>,
    <<<<"n","e","w"," ","y","o","r","k">>, <<"N","Y">>>>,
    <<<<"n","o","r","t","h"," ","c","a","r","o","l","i","n","a">>, <<"N","C">>>>,
    <<<<"n","o","r","t","h"," ","d","a","k","o","t","a">>, <<"N","D">>>>,
    <<<<"o","h","i","o">>, <<"O","H">>>>,
    <<<<"o","k","l","a","h","o","m","a">>, <<"O","K">>>>,
    <<<<"o","r","e","g","o","n">>, <<"O","R">>>>,
    <<<<"p","e","n","n","s","y","l","v","a","n","i","a">>, <<"P","A">>>>,
    <<<<"r","h","o","d","e"," ","i","s","l","a","n","d">>, <<"R","I">>>>,
    <<<<"s","o","u","t","h"," ","c","a","r","o","l","i","n","a">>, <<"S","C">>>>,
    <<<<"s","o","u","t","h"," ","d","a","k","o","t","a">>, <<"S","D">>>>,
    <<<<"t","e","n","n","e","s","s","e","e">>, <<"T","N">>>>,
    <<<<"t","e","x","a","s">>, <<"T","X">>>>,
    <<<<"u","t","a","h">>, <<"U","T">>>>,
    <<<<"v","e","r","m","o","n","t">>, <<"V","T">>>>,
    <<<<"v","i","r","g","i","n","i","a">>, <<"V","A">>>>,
    <<<<"w","a","s","h","i","n","g","t","o","n">>, <<"W","A">>>>,
    <<<<"w","e","s","t"," ","v","i","r","g","i","n","i","a">>, <<"W","V">>>>,
    <<<<"w","i","s","c","o","n","s","i","n">>, <<"W","I">>>>,
    <<<<"w","y","o","m","i","n","g">>, <<"W","Y">>>>
    }

US_STATE_NAMES == {e[1] : e \in US_STATES}

\* _STATE_ABBRS: the abbreviations and the upper-cased names
STATE_ABBRS == {e[2] : e \in US_STATES} \cup {StrUpper(e[1]) : e \in US_STATES}

\* the tuple ("USA", "US", "UNITED STATES") of has_usa
COUNTRY_TOKENS ==
    { <<"U","S","A">>, <<"U","S">>,
      <<"U","N","I","T","E","D"," ","S","T","A","T","E","S">> }

CommaSpace == <<",", " ">>
CommaSpaceUSA == <<",", " ", "U", "S", "A">>

----------------------------------------------------------------------------
(* step2.py: _build_fallback_queries                                       *)

Parts(addr) ==
    LET raw == StrSplitComma(addr)
    IN  [k \in 1..Len(raw) |-> StrStrip(raw[k])]

HasState(parts) ==
    \E k \in 1..Len(parts) :
        \/ StrUpper(parts[k]) \in STATE_ABBRS
        \/ StrLower(parts[k]) \in US_STATE_NAMES

HasUsa(parts) ==
    \E k \in 1..Len(parts) : StrUpper(parts[k]) \in COUNTRY_TOKENS

\* f"{parts[0]}, {parts[-1]}, USA"
CollapsedQuery(parts) ==
    parts[1] \o CommaSpace \o parts[Len(parts)] \o CommaSpaceUSA

\* the original address is trimmed before it is queued
BuildFallbackQueries_Trimmed(addr) ==
    LET parts == Parts(addr)
        q1 == <<StrStrip(addr)>>
        q2 == IF ~HasUsa(parts) THEN q1 \o <<addr \o CommaSpaceUSA>> ELSE q1
        q3 == IF ~HasState(parts) /\ ~HasUsa(parts) /\ Len(parts) >= 2
              THEN q2 \o <<CollapsedQuery(parts)>>
              ELSE q2
    IN  q3

\* the collapsed query is added without looking at has_usa
BuildFallbackQueries_CollapsedIgnoresUsa(addr) ==
    LET parts == Parts(addr)
        q1 == <<addr>>
        q2 == IF ~HasUsa(parts) THEN q1 \o <<addr \o CommaSpaceUSA>> ELSE q1
        q3 == IF ~HasState(parts) /\ Len(parts) >= 2
              THEN q2 \o <<CollapsedQuery(parts)>>
              ELSE q2
    IN  q3

\* (the parts are bound once, as a value)
BuildFallbackQueries(addr) ==
    LET q1 == <<addr>>
        q2(parts) == IF ~HasUsa(parts) THEN q1 \o <<addr \o CommaSpaceUSA>> ELSE q1
        q3(parts) == IF ~HasState(parts) /\ ~HasUsa(parts) /\ Len(parts) >= 2
                     THEN q2(parts) \o <<CollapsedQuery(parts)>>
                     ELSE q2(parts)
    IN  CHOOSE qs \in {q3(parts) : parts \in {Parts(addr)}} : TRUE

----------------------------------------------------------------------------
(* Inputs of the query builder: addresses made of up to MaxTokens tokens   *)

MaxTokens == 4

AddrTokens ==
    { <<"M">>, <<",">>, <<" ">>,
      <<"U","S","A">>, <<"u","s">>,
      <<"U","n","i","t","e","d"," ","S","t","a","t","e","s">>,
      <<"I","L">>, <<"O","h","i","o">> }

RECURSIVE Concat(_)
Concat(ts) == IF ts = <<>> THEN <<>> ELSE Head(ts) \o Concat(Tail(ts))

Addresses ==
    { Concat(ts) : ts \in UNION {[1..n -> AddrTokens] : n \in 1..MaxTokens} }


----------------------------------------------------------------------------
(* Optional values: None is the empty sequence, a value v is <<v>>         *)

None == <<>>

Some(v) == <<v>>

IsNone(x) == x = None

\* dict.get(key, default)
Get(d, key, default) == IF key \in DOMAIN d THEN d[key] ELSE default

\* Python's "a or b": a when a is truthy (a non-empty string)
OrElse(a, b) == IF a # "" THEN a ELSE b

----------------------------------------------------------------------------
(* The external lookup (Nominatim behind geopy's RateLimiter)              *)

MaxRecords == 2
MaxLat == 1

\* RateLimiter(..., min_delay_seconds=1.0)
MIN_DELAY_SECONDS == 1

\* time.sleep(1) between fallback attempts
BACKOFF_SECONDS == 1

\* how long one lookup takes, in whole seconds
LookupSeconds == {0, 1}

\* location.raw: with or without the "address" details
RawVariants ==
    { [address |-> [town |-> "Avon", village |-> "Lee", postcode |-> "62701"]],
      [osm_id |-> "1"] }

\* coordinates are grid positions on one meridian (longitude 0)
Locations ==
    { [latitude |-> la, longitude |-> 0, raw |-> r] : la \in 0..MaxLat, r \in RawVariants }

\* what one call of geocode(query, addressdetails=True) can do
Outcomes ==
    { [kind |-> "exception"], [kind |-> "empty"] }
        \cup { [kind |-> "location", location |-> l] : l \in Locations }

\* the addresses a run is given: one with a single query (it names the
\* country) and one with three fallback queries
AddressPool ==
    { <<"M",","," ","U","S","A">>, <<"M",",","M">> }

NoCall == 0 - 1

\* a limiter that lets every call through at once
AcquireSlot_NoWait(now, last) == now

\* RateLimiter.__call__: the time at which the wrapped call is let through
AcquireSlot(now, last) ==
    IF last = NoCall \/ now - last >= MIN_DELAY_SECONDS
    THEN now
    ELSE last + MIN_DELAY_SECONDS

----------------------------------------------------------------------------
(* step2.py: geocode_addresses and _geocode_with_fallback                  *)

\* raw.get("city") or raw.get("town") or raw.get("village", "")
CityOf(location) ==
    LET raw == Get(location.raw, "address", <<>>)
    IN  OrElse(Get(raw, "city", ""), OrElse(Get(raw, "town", ""), Get(raw, "village", "")))

\* raw.get("postcode", "")
ZipOf(location) == Get(Get(location.raw, "address", <<>>), "postcode", "")

\* no handler around the lookup call
LookupHandler_None == "none"

\* only the handler of the row loop around the lookup call
LookupHandler_Row == "row"

\* the innermost handler around the lookup call: "fallback" is the
\* "except Exception: pass" of _geocode_with_fallback, "row" the
\* "except Exception as e" of geocode_addresses, "none" no handler at all
LookupHandler == "fallback"

Rows == Len(df["address"])

\* the query builder is not in use
IdleQ ==
    /\ address = <<>>
    /\ queries = <<>>
    /\ qpc = "idle"

\* DBSCAN on its own is not in use
IdleC ==
    /\ points = <<>>
    /\ min_samples = 0
    /\ labels = <<>>
    /\ label_num = 0
    /\ cpc = "idle"

\* no request of the web application is being served, nothing is saved
IdleA ==
    /\ store = [address |-> <<>>]
    /\ address_data = <<>>
    /\ apc = "idle"

\* no pipeline run is under way
IdleG ==
    /\ df = [address |-> <<>>]
    /\ pc = "idle"
    /\ i = 0
    /\ rec_queries = <<>>
    /\ qi = 0
    /\ latitudes = <<>>
    /\ longitudes = <<>>
    /\ cities = <<>>
    /\ zip_codes = <<>>
    /\ clock = 0
    /\ last_call = NoCall
    /\ raised = FALSE
    /\ call_log = <<>>
    /\ tried = <<>>
    /\ returned = <<>>

\* geocode_addresses(df) is entered: the limiter is created, the lists are empty
InitG ==
    /\ df \in { [address |-> a] : a \in UNION {[1..n -> AddressPool] : n \in 0..MaxRecords} }
    /\ pc = "loop"
    /\ i = 1
    /\ rec_queries = <<>>
    /\ qi = 0
    /\ latitudes = <<>>
    /\ longitudes = <<>>
    /\ cities = <<>>
    /\ zip_codes = <<>>
    /\ clock = 0
    /\ last_call = NoCall
    /\ raised = FALSE
    /\ call_log = <<>>
    /\ tried = <<>>
    /\ returned = <<>>

\* the row's four cells when a location was found
AppendFound(location) ==
    /\ latitudes' = Append(latitudes, Some(location.latitude))
    /\ longitudes' = Append(longitudes, Some(location.longitude))
    /\ cities' = Append(cities, CityOf(location))
    /\ zip_codes' = Append(zip_codes, ZipOf(location))

\* a row for which nothing was found is left out of the lists
AppendNotFound_SkipsRow ==
    UNCHANGED <<latitudes, longitudes, cities, zip_codes>>

\* the row's four cells when nothing was found, or the row raised
AppendNotFound ==
    /\ latitudes' = Append(latitudes, None)
    /\ longitudes' = Append(longitudes, None)
    /\ cities' = Append(cities, "")
    /\ zip_codes' = Append(zip_codes, "")

\* for i, address in enumerate(df["address"]): the next row starts
StartRecord ==
    /\ pc = "loop"
    /\ i <= Rows
    /\ rec_queries' = BuildFallbackQueries(df["address"][i])
    /\ qi' = 1
    /\ tried' = <<>>
    /\ pc' = "query"
    /\ UNCHANGED <<df, i, latitudes, longitudes, cities, zip_codes,
                   clock, last_call, raised, call_log, returned>>

\* location = geocode(query, addressdetails=True): the limiter lets the call
\* through at time t, the lookup takes dur seconds and ends as outcome o
Lookup(o, dur) ==
    /\ pc = "query"
    /\ LET t == AcquireSlot(clock, last_call)
           attempt == [query |-> rec_queries[qi], outcome |-> o, at |-> t, ret |-> t + dur]
       IN  /\ last_call' = t
           /\ clock' = t + dur
           /\ call_log' = IF call_log = <<>> THEN <<t>> ELSE <<call_log[Len(call_log)], t>>
           /\ tried' = Append(tried, attempt)
           /\ CASE o.kind = "location" ->
                     \* return location, query; the row is appended
                     /\ AppendFound(o.location)
                     /\ returned' = Append(returned, Some(o.location))
                     /\ i' = i + 1
                     /\ pc' = "loop"
                     /\ UNCHANGED <<raised>>
                [] o.kind = "empty" \/ (o.kind = "exception" /\ LookupHandler = "fallback") ->
                     /\ pc' = "sleep"
                     /\ UNCHANGED <<i, latitudes, longitudes, cities, zip_codes,
                                    raised, returned>>
                [] o.kind = "exception" /\ LookupHandler = "row" ->
                     /\ AppendNotFound
                     /\ returned' = Append(returned, None)
                     /\ i' = i + 1
                     /\ pc' = "loop"
                     /\ UNCHANGED <<raised>>
                [] OTHER ->
                     /\ raised' = TRUE
                     /\ pc' = "raised"
                     /\ UNCHANGED <<i, latitudes, longitudes, cities, zip_codes, returned>>
    /\ UNCHANGED <<df, rec_queries, qi>>

\* time.sleep(1) after a failed query; then the next query, or return None, None
Backoff ==
    /\ pc = "sleep"
    /\ clock' = clock + BACKOFF_SECONDS
    /\ IF qi < Len(rec_queries)
       THEN /\ qi' = qi + 1
            /\ pc' = "query"
            /\ UNCHANGED <<i, latitudes, longitudes, cities, zip_codes, returned>>
       ELSE /\ AppendNotFound
            /\ returned' = Append(returned, None)
            /\ i' = i + 1
            /\ pc' = "loop"
            /\ UNCHANGED qi
    /\ UNCHANGED <<df, rec_queries, last_call, raised, call_log, tried>>

\* df["latitude"] = latitudes ... return df; a list of another length than
\* the frame makes the column assignment raise ValueError
AssignColumns ==
    /\ pc = "loop"
    /\ i > Rows
    /\ IF /\ Len(latitudes) = Rows /\ Len(longitudes) = Rows
          /\ Len(cities) = Rows /\ Len(zip_codes) = Rows
       THEN /\ df' = [c \in DOMAIN df \cup {"latitude", "longitude", "city", "zip_code"} |->
                        CASE c = "latitude" -> latitudes
                          [] c = "longitude" -> longitudes
                          [] c = "city" -> cities
                          [] c = "zip_code" -> zip_codes
                          [] OTHER -> df[c]]
            /\ pc' = "geocoded"
            /\ UNCHANGED raised
       ELSE /\ raised' = TRUE
            /\ pc' = "raised"
            /\ UNCHANGED df
    /\ UNCHANGED <<i, rec_queries, qi, latitudes, longitudes, cities, zip_codes,
                   clock, last_call, call_log, tried, returned>>

----------------------------------------------------------------------------
(* step3.py: DBSCAN(eps, min_samples, metric="haversine").fit_predict      *)
(*                                                                         *)
(* Coordinates are grid positions on one meridian, 4 hectometres apart, so *)
(* the great-circle distance of two points is exactly the difference of    *)
(* their latitudes.  eps_km / 6371 and the haversine distance in radians   *)
(* are the same two lengths divided by the Earth's radius, so they compare *)
(* as the lengths do.                                                      *)

\* eps_km=0.5, in hectometres
EPS_HM == 5

\* min_samples=3
MIN_SAMPLES == 3

Abs(x) == IF x < 0 THEN 0 - x ELSE x

\* haversine distance, in hectometres, of two points of the meridian
HaversineHm(p, q) == 4 * Abs(p.latitude - q.latitude)

\* the points within eps of point k, point k among them
Neighborhood(coords, eps, k) ==
    {j \in 1..Len(coords) : HaversineHm(coords[k], coords[j]) <= eps}

\* a point counts as core one neighbour too early
IsCore_OneShort(coords, eps, minS, k) ==
    Cardinality(Neighborhood(coords, eps, k)) >= minS - 1

\* a point counts as core one neighbour too late
IsCore_Strict(coords, eps, minS, k) ==
    Cardinality(Neighborhood(coords, eps, k)) > minS

\* core_samples: at least min_samples points within eps, the point included
IsCore(coords, eps, minS, k) ==
    Cardinality(Neighborhood(coords, eps, k)) >= minS

\* dbscan_inner, the depth-first walk from one seed: every point without a
\* label that is a neighbour of a core point of the cluster joins it
RECURSIVE Grow(_, _, _, _, _)
Grow(coords, eps, minS, lab, members) ==
    LET add == {v \in 1..Len(coords) :
                   /\ lab[v] = 0 - 1
                   /\ v \notin members
                   /\ \E c \in members :
                         IsCore(coords, eps, minS, c) /\ v \in Neighborhood(coords, eps, c)}
    IN  IF add = {} THEN members
        ELSE Grow(coords, eps, minS, lab, members \cup add)

\* the labels after the cluster of seed got number num
Expand(coords, eps, minS, lab, num, seed) ==
    LET members == Grow(coords, eps, minS, lab, {seed})
    IN  [k \in 1..Len(coords) |-> IF k \in members THEN num ELSE lab[k]]

\* the points the outer loop of dbscan_inner does not skip
Seeds(coords, eps, minS, lab) ==
    {k \in 1..Len(coords) : lab[k] = 0 - 1 /\ IsCore(coords, eps, minS, k)}

Unlabelled(coords) == [k \in 1..Len(coords) |-> 0 - 1]

\* dbscan_inner, the outer loop: the points are visited in index order
RECURSIVE Sweep(_, _, _, _, _)
Sweep(coords, eps, minS, lab, num) ==
    LET seeds == Seeds(coords, eps, minS, lab)
    IN  IF seeds = {} THEN lab
        ELSE LET first == CHOOSE k \in seeds : \A j \in seeds : k <= j
             IN  Sweep(coords, eps, minS, Expand(coords, eps, minS, lab, num, first), num + 1)

FitPredict(coords, eps, minS) == Sweep(coords, eps, minS, Unlabelled(coords), 0)

----------------------------------------------------------------------------
(* step3.py: detect_clusters                                               *)

\* has_coords = df["latitude"].notna() & df["longitude"].notna()
HasCoords(frame, k) == ~IsNone(frame["latitude"][k]) /\ ~IsNone(frame["longitude"][k])

ValidRows(frame) == {k \in 1..Len(frame["address"]) : HasCoords(frame, k)}

\* the position of row k in valid_df
Rank(frame, k) == Cardinality({j \in ValidRows(frame) : j <= k})

\* valid_df[["latitude", "longitude"]].values
ValidCoords(frame) ==
    [r \in 1..Cardinality(ValidRows(frame)) |->
        LET k == CHOOSE k \in ValidRows(frame) : Rank(frame, k) = r
        IN  [latitude |-> frame["latitude"][k][1], longitude |-> frame["longitude"][k][1]]]

\* labels = db.fit_predict(coords_rad), for the rows with coordinates
\* (the coordinates are bound once, as a value)
ValidLabels(frame, eps, minS) ==
    CHOOSE lab \in {FitPredict(coords, eps, minS) : coords \in {ValidCoords(frame)}} : TRUE

\* the column is not set to -1 before the labels are written at has_coords
ClusterColumn_NoDefault(frame, eps, minS) ==
    CHOOSE col \in
        { [k \in 1..Len(frame["address"]) |->
              IF k \in valid THEN Some(lab[Rank(frame, k)]) ELSE None] :
          lab \in {ValidLabels(frame, eps, minS)}, valid \in {ValidRows(frame)} } : TRUE

\* df["cluster"]: -1 everywhere, then the labels at the rows with coordinates
ClusterColumn(frame, eps, minS) ==
    IF ValidRows(frame) = {}
    THEN [k \in 1..Len(frame["address"]) |-> Some(0 - 1)]
    ELSE CHOOSE col \in
            { [k \in 1..Len(frame["address"]) |->
                  IF k \in valid THEN Some(lab[Rank(frame, k)]) ELSE Some(0 - 1)] :
              lab \in {ValidLabels(frame, eps, minS)}, valid \in {ValidRows(frame)} } : TRUE

\* df = detect_clusters(df), with the default eps_km and min_samples
DetectClusters ==
    /\ pc = "geocoded"
    /\ df' = [c \in DOMAIN df \cup {"cluster"} |->
                IF c = "cluster" THEN ClusterColumn(df, EPS_HM, MIN_SAMPLES) ELSE df[c]]
    /\ pc' = "clustered"
    /\ UNCHANGED <<i, rec_queries, qi, latitudes, longitudes, cities, zip_codes,
                   clock, last_call, raised, call_log, tried, returned>>

----------------------------------------------------------------------------
(* DBSCAN on its own: any coordinates, any min_samples, any order          *)

MaxPoints == 7
MaxGrid == 4
MaxMinSamples == 4

\* the coordinate lists of n points, in ascending order of latitude
RECURSIVE Ascending(_)
Ascending(n) ==
    IF n = 0 THEN {<<>>}
    ELSE UNION { {Append(s, [latitude |-> la, longitude |-> 0]) :
                    la \in (IF s = <<>> THEN 0 ELSE s[Len(s)].latitude)..MaxGrid} :
                 s \in Ascending(n - 1) }

InitC ==
    /\ points \in UNION {Ascending(n) : n \in 0..MaxPoints}
    /\ min_samples \in 1..MaxMinSamples
    /\ labels = Unlabelled(points)
    /\ label_num = 0
    /\ cpc = "fit"
    /\ IdleQ
    /\ IdleG
    /\ IdleA

\* one turn of the outer loop that starts a cluster.  The points can be
\* presented in any order: the seed is the first point in that order that is
\* core and has no label, so any such point can be the next seed.
Visit(seed) ==
    /\ cpc = "fit"
    /\ seed \in Seeds(points, EPS_HM, min_samples, labels)
    /\ labels' = Expand(points, EPS_HM, min_samples, labels, label_num, seed)
    /\ label_num' = label_num + 1
    /\ UNCHANGED <<points, min_samples, cpc>>
    /\ UNCHANGED <<varsQ, varsG, varsA>>

\* the outer loop has skipped every remaining point
FitDone ==
    /\ cpc = "fit"
    /\ Seeds(points, EPS_HM, min_samples, labels) = {}
    /\ cpc' = "done"
    /\ UNCHANGED <<points, min_samples, labels, label_num>>
    /\ UNCHANGED <<varsQ, varsG, varsA>>

NextC ==
    \/ \E seed \in 1..Len(points) : Visit(seed)
    \/ FitDone

SpecC == InitC /\ [][NextC]_vars

----------------------------------------------------------------------------
(* The query builder on its own                                            *)

InitQ ==
    /\ address \in Addresses
    /\ queries = <<>>
    /\ qpc = "input"
    /\ IdleG
    /\ IdleC
    /\ IdleA

\* one call of _build_fallback_queries(address)
Build ==
    /\ qpc = "input"
    /\ queries' = BuildFallbackQueries(address)
    /\ qpc' = "built"
    /\ UNCHANGED address
    /\ UNCHANGED <<varsG, varsC, varsA>>

NextQ == Build

SpecQ == InitQ /\ [][NextQ]_vars

----------------------------------------------------------------------------
(* app.py: the saved-address store (saved_addresses.csv)                   *)
(*                                                                         *)
(* A cell of a frame in memory is what pandas holds: a str is its          *)
(* characters, an int read from the file is the tag "int" followed by its  *)
(* decimal digits, NaN in a column of strings is NAN, NaN in a column of   *)
(* numbers is None.  A cell of the file is the text that was written.      *)

Digits == {"0", "1", "2", "3", "4", "5", "6", "7", "8", "9"}

IsDigits(s) == s # <<>> /\ \A k \in 1..Len(s) : s[k] \in Digits

\* str(int(s)): the leading zeros are gone
RECURSIVE IntText(_)
IntText(s) == IF Len(s) > 1 /\ Head(s) = "0" THEN IntText(Tail(s)) ELSE s

IntCell(s) == <<"int">> \o IntText(s)

IsIntCell(c) == c # <<>> /\ Head(c) = "int"

\* what to_csv writes for an address cell
CellText(c) == IF IsIntCell(c) THEN Tail(c) ELSE c

NAN == "NaN"

\* read_csv infers the type of a column from all its cells: a column whose
\* cells are all decimal numbers is a column of ints, any other a column of str
ReadAddressColumn(cells) ==
    IF cells # <<>> /\ \A k \in 1..Len(cells) : IsDigits(cells[k])
    THEN [k \in 1..Len(cells) |-> IntCell(cells[k])]
    ELSE cells

\* pd.read_csv(ADDRESSES_CSV): an empty field is NaN
ReadCsv(file) ==
    [c \in DOMAIN file |->
        CASE c = "address" -> ReadAddressColumn(file[c])
          [] c \in {"city", "zip_code"} ->
                 [k \in 1..Len(file[c]) |-> IF file[c][k] = "" THEN NAN ELSE file[c][k]]
          [] OTHER -> file[c]]

\* df.to_csv(ADDRESSES_CSV, index=False): NaN is written as an empty field
WriteCsv(frame) ==
    [c \in DOMAIN frame |->
        CASE c = "address" -> [k \in 1..Len(frame[c]) |-> CellText(frame[c][k])]
          [] c \in {"city", "zip_code"} ->
                 [k \in 1..Len(frame[c]) |-> IF frame[c][k] = NAN THEN "" ELSE frame[c][k]]
          [] OTHER -> frame[c]]

\* _load_saved_addresses(): without a file, an empty frame with an address column
LoadSavedAddresses == ReadCsv(store)

----------------------------------------------------------------------------
(* app.py: _get_density_label and the addresses view                       *)

HIGH_SIZE == 10
MEDIUM_SIZE == 5

NOT_PROCESSED == "Not processed"

\* cluster_size = (df["cluster"] == cluster_id).sum()
ClusterSize(frame, cluster_id) ==
    Cardinality({k \in 1..Len(frame["cluster"]) : frame["cluster"][k] = cluster_id})

\* the High threshold is taken strictly
GetDensityLabel_StrictHigh(cluster_id, frame) ==
    IF IsNone(cluster_id) \/ cluster_id = Some(0 - 1)
    THEN "Isolated"
    ELSE IF ClusterSize(frame, cluster_id) > HIGH_SIZE THEN "High"
         ELSE IF ClusterSize(frame, cluster_id) >= MEDIUM_SIZE THEN "Medium"
         ELSE "Low"

\* _get_density_label(cluster_id, df)
GetDensityLabel(cluster_id, frame) ==
    IF IsNone(cluster_id) \/ cluster_id = Some(0 - 1)
    THEN "Isolated"
    ELSE IF ClusterSize(frame, cluster_id) >= HIGH_SIZE THEN "High"
         ELSE IF ClusterSize(frame, cluster_id) >= MEDIUM_SIZE THEN "Medium"
         ELSE "Low"

\* _get_density_badge(label)
GetDensityBadge(label) ==
    CASE label = "High" -> "danger"
      [] label = "Medium" -> "warning"
      [] label = "Low" -> "info"
      [] OTHER -> "muted"

\* has_geocoded = "latitude" in df.columns and "cluster" in df.columns
HasGeocoded(frame) == "latitude" \in DOMAIN frame /\ "cluster" \in DOMAIN frame

\* one entry of address_data
Entry(frame, k) ==
    IF HasGeocoded(frame) /\ ~IsNone(frame["latitude"][k])
    THEN [index |-> k - 1, address |-> frame["address"][k],
          density |-> GetDensityLabel(frame["cluster"][k], frame),
          badge |-> GetDensityBadge(GetDensityLabel(frame["cluster"][k], frame)),
          geocoded |-> TRUE]
    ELSE [index |-> k - 1, address |-> frame["address"][k],
          density |-> NOT_PROCESSED, badge |-> "muted", geocoded |-> FALSE]

AddressData(frame) == [k \in 1..Len(frame["address"]) |-> Entry(frame, k)]

\* GET /addresses
AddressesView ==
    /\ apc = "ready"
    /\ address_data' = AddressData(LoadSavedAddresses)
    /\ apc' = "viewed"
    /\ UNCHANGED store

----------------------------------------------------------------------------
(* The addresses view on its own: any saved frame                          *)

MaxPopulation == 10
MaxSecond == 5
MaxOther == 1

Repeat(kind, n) == [k \in 1..n |-> kind]

Rotate(s, r) == [k \in 1..Len(s) |-> s[((k + r - 1) % Len(s)) + 1]]

\* the saved frame whose rows are of the given kinds: "c0" and "c1" are rows
\* of two clusters, "noise" a row DBSCAN left out, "unresolved" a row the
\* lookup found nothing for, "added" a row added after the last processing
SavedFrame(kinds) ==
    [c \in {"address", "latitude", "longitude", "city", "zip_code", "cluster"} |->
        [k \in 1..Len(kinds) |->
            CASE c = "address" -> Repeat("M", k)
              [] c = "latitude" ->
                     CASE kinds[k] = "c0" -> Some(k % 2)
                       [] kinds[k] = "c1" -> Some(10 + (k % 2))
                       [] kinds[k] = "noise" -> Some(20)
                       [] OTHER -> None
              [] c = "longitude" ->
                     IF kinds[k] \in {"c0", "c1", "noise"} THEN Some(0) ELSE None
              [] c = "city" -> IF kinds[k] \in {"c0", "c1", "noise"} THEN "Avon" ELSE ""
              [] c = "zip_code" -> IF kinds[k] \in {"c0", "c1", "noise"} THEN "62701" ELSE ""
              [] OTHER ->
                     CASE kinds[k] = "c0" -> Some(0)
                       [] kinds[k] = "c1" -> Some(1)
                       [] kinds[k] = "added" -> None
                       [] OTHER -> Some(0 - 1)]]

\* the rows of a saved frame, in every rotation
RowKinds ==
    UNION { LET s == Repeat("c0", a) \o Repeat("c1", b) \o Repeat("noise", n)
                     \o Repeat("unresolved", u) \o Repeat("added", w)
            IN  {Rotate(s, r) : r \in 0..(IF s = <<>> THEN 0 ELSE Len(s) - 1)} :
            a \in 0..MaxPopulation, b \in 0..MaxSecond,
            n \in 0..MaxOther, u \in 0..MaxOther, w \in 0..MaxOther }

\* a frame that was never processed has the address column only
NeverProcessed == { [address |-> [k \in 1..n |-> Repeat("M", k)]] : n \in 0..MaxOther + 1 }

InitL ==
    /\ store \in {SavedFrame(kinds) : kinds \in RowKinds} \cup NeverProcessed
    /\ address_data = <<>>
    /\ apc = "ready"
    /\ IdleQ
    /\ IdleG
    /\ IdleC

NextL == AddressesView /\ UNCHANGED <<varsQ, varsG, varsC>>

SpecL == InitL /\ [][NextL]_vars

----------------------------------------------------------------------------
(* One run of the pipeline                                                 *)

Init == InitG /\ IdleQ /\ IdleC /\ IdleA

Next ==
    \/ StartRecord /\ UNCHANGED <<varsQ, varsC, varsA>>
    \/ \E o \in Outcomes, dur \in LookupSeconds : Lookup(o, dur) /\ UNCHANGED <<varsQ, varsC, varsA>>
    \/ Backoff /\ UNCHANGED <<varsQ, varsC, varsA>>
    \/ AssignColumns /\ UNCHANGED <<varsQ, varsC, varsA>>
    \/ DetectClusters /\ UNCHANGED <<varsQ, varsC, varsA>>

Spec == Init /\ [][Next]_vars

----------------------------------------------------------------------------
(* One request that runs the pipeline: upload or process_saved             *)

\* what a lookup does in a request: it fails, finds nothing, or finds a place
\* (how long it takes makes no difference to the order of the steps: the
\* lookups of a request answer at once)
RequestOutcomes ==
    { [kind |-> "exception"], [kind |-> "empty"] }
        \cup { [kind |-> "location",
                location |-> [latitude |-> la, longitude |-> 0,
                              raw |-> [address |-> [town |-> "Avon", postcode |-> "62701"]]]] :
               la \in {0, MaxLat} }

\* upload: df = load_and_clean(filepath); process_saved: df = _load_saved_addresses()
InitR ==
    /\ apc \in {"upload", "process_saved"}
    /\ df \in { [address |-> a] : a \in UNION {[1..n -> AddressPool] : n \in 0..MaxRecords} }
    /\ store = IF apc = "process_saved" THEN WriteCsv(df) ELSE [address |-> <<>>]
    /\ address_data = <<>>
    /\ pc = "request"
    /\ i = 0
    /\ rec_queries = <<>>
    /\ qi = 0
    /\ latitudes = <<>>
    /\ longitudes = <<>>
    /\ cities = <<>>
    /\ zip_codes = <<>>
    /\ clock = 0
    /\ last_call = NoCall
    /\ raised = FALSE
    /\ call_log = <<>>
    /\ tried = <<>>
    /\ returned = <<>>
    /\ IdleQ
    /\ IdleC

\* process_saved: if len(df) == 0, redirect to the addresses page
NoSavedAddresses ==
    /\ pc = "request"
    /\ apc = "process_saved"
    /\ Rows = 0
    /\ pc' = "done"
    /\ apc' = "ready"
    /\ UNCHANGED <<df, i, rec_queries, qi, latitudes, longitudes, cities, zip_codes,
                   clock, last_call, raised, call_log, tried, returned>>
    /\ UNCHANGED <<store, address_data>>

\* df = _run_pipeline(df): geocode_addresses is entered
RunPipeline ==
    /\ pc = "request"
    /\ apc = "upload" \/ Rows > 0
    /\ pc' = "loop"
    /\ i' = 1
    /\ UNCHANGED <<df, rec_queries, qi, latitudes, longitudes, cities, zip_codes,
                   clock, last_call, raised, call_log, tried, returned>>
    /\ UNCHANGED varsA

\* process_saved redirects to the page of the saved addresses
SaveAddresses_RedirectsToIndex ==
    /\ pc = "clustered"
    /\ apc = "process_saved"
    /\ store' = WriteCsv(df)
    /\ pc' = "done"
    /\ apc' = "index"
    /\ UNCHANGED <<df, i, rec_queries, qi, latitudes, longitudes, cities, zip_codes,
                   clock, last_call, raised, call_log, tried, returned>>
    /\ UNCHANGED address_data

\* process_saved after _run_pipeline has written the heat map and the enriched
\* file: _save_addresses(df), then the redirect to the addresses page
SaveAddresses ==
    /\ pc = "clustered"
    /\ apc = "process_saved"
    /\ store' = WriteCsv(df)
    /\ pc' = "done"
    /\ apc' = "ready"
    /\ UNCHANGED <<df, i, rec_queries, qi, latitudes, longitudes, cities, zip_codes,
                   clock, last_call, raised, call_log, tried, returned>>
    /\ UNCHANGED address_data

\* upload after _run_pipeline has written the heat map and the enriched file:
\* the redirect to the index page
UploadDone ==
    /\ pc = "clustered"
    /\ apc = "upload"
    /\ pc' = "done"
    /\ apc' = "index"
    /\ UNCHANGED <<df, i, rec_queries, qi, latitudes, longitudes, cities, zip_codes,
                   clock, last_call, raised, call_log, tried, returned>>
    /\ UNCHANGED <<store, address_data>>

NextR ==
    \/ NoSavedAddresses /\ UNCHANGED <<varsQ, varsC>>
    \/ RunPipeline /\ UNCHANGED <<varsQ, varsC>>
    \/ StartRecord /\ UNCHANGED <<varsQ, varsC, varsA>>
    \/ \E o \in RequestOutcomes : Lookup(o, 0) /\ UNCHANGED <<varsQ, varsC, varsA>>
    \/ Backoff /\ UNCHANGED <<varsQ, varsC, varsA>>
    \/ AssignColumns /\ UNCHANGED <<varsQ, varsC, varsA>>
    \/ DetectClusters /\ UNCHANGED <<varsQ, varsC, varsA>>
    \/ SaveAddresses /\ UNCHANGED <<varsQ, varsC>>
    \/ UploadDone /\ UNCHANGED <<varsQ, varsC>>
    \/ AddressesView /\ UNCHANGED <<varsQ, varsG, varsC>>

\* the handler runs to its end: every step that can be taken is taken, a
\* lookup call returns or raises, and the browser follows the redirect
SpecR == InitR /\ [][NextR]_vars /\ WF_vars(NextR)

----------------------------------------------------------------------------
(* app.py: add_address, delete_address, process_saved on the saved store   *)

MaxStore == 3
MaxLines == 2

\* the lines a form can hold: addresses, one with a blank in front, addresses
\* made of digits only, and an empty line
LinePool == { <<"A">>, <<" ", "A">>, <<"7">>, <<"0", "7">>, <<>> }

\* lines = [line.strip() for line in raw.splitlines() if line.strip()]
CleanLines(raw) ==
    LET stripped == [k \in 1..Len(raw) |-> StrStrip(raw[k])]
    IN  SelectSeq(stripped, LAMBDA l : l # <<>>)

\* the members of a set of row numbers, in ascending order
InOrder(rows) ==
    [r \in 1..Cardinality(rows) |->
        CHOOSE k \in rows : Cardinality({j \in rows : j <= k}) = r]

\* the frame of the given rows, in their order
TakeRows(frame, rows) ==
    [c \in DOMAIN frame |-> [r \in 1..Cardinality(rows) |-> frame[c][InOrder(rows)[r]]]]

\* the cell of a column for a row that has no value in it
Missing(c) == IF c \in {"city", "zip_code"} THEN NAN ELSE None

\* pd.concat([existing, new_df], ignore_index=True), new_df = {"address": lines}
PdConcat(existing, lines) ==
    [c \in DOMAIN existing |->
        existing[c] \o [k \in 1..Len(lines) |-> IF c = "address" THEN lines[k] ELSE Missing(c)]]

\* combined.drop_duplicates(subset=["address"]): the first row of each address
\* cell is kept; an int cell and a str cell are never equal
DropDuplicates(frame) ==
    TakeRows(frame, {k \in 1..Len(frame["address"]) :
                        \A j \in 1..(k - 1) : frame["address"][j] # frame["address"][k]})

\* POST /add-address with the lines of the form
AddAddress(raw) ==
    /\ apc = "ready"
    /\ IF CleanLines(raw) = <<>>
       THEN UNCHANGED store
       ELSE LET combined == DropDuplicates(PdConcat(LoadSavedAddresses, CleanLines(raw)))
            IN  /\ Len(combined["address"]) <= MaxStore
                /\ store' = WriteCsv(combined)
    /\ UNCHANGED <<address_data, apc>>

\* POST /delete-address: df = df[df["address"] != address]; a str is
\* different from every int
DeleteAddress(addr) ==
    /\ apc = "ready"
    /\ IF addr = <<>>
       THEN UNCHANGED store
       ELSE LET frame == LoadSavedAddresses
            IN  store' = WriteCsv(TakeRows(frame, {k \in 1..Len(frame["address"]) :
                                                      frame["address"][k] # addr}))
    /\ UNCHANGED <<address_data, apc>>

\* what geocode_addresses gets for a row: nothing, or a location
RowResults == {None} \cup {Some(o.location) : o \in {o \in RequestOutcomes : o.kind = "location"}}

\* df = _run_pipeline(df): the four columns of geocode_addresses, then the
\* cluster column of detect_clusters
PipelineFrame(frame, rets) ==
    LET geocoded ==
            [c \in DOMAIN frame \cup {"latitude", "longitude", "city", "zip_code"} |->
                CASE c = "latitude" ->
                         [k \in 1..Len(rets) |->
                             IF IsNone(rets[k]) THEN None ELSE Some(rets[k][1].latitude)]
                  [] c = "longitude" ->
                         [k \in 1..Len(rets) |->
                             IF IsNone(rets[k]) THEN None ELSE Some(rets[k][1].longitude)]
                  [] c = "city" ->
                         [k \in 1..Len(rets) |->
                             IF IsNone(rets[k]) THEN "" ELSE CityOf(rets[k][1])]
                  [] c = "zip_code" ->
                         [k \in 1..Len(rets) |->
                             IF IsNone(rets[k]) THEN "" ELSE ZipOf(rets[k][1])]
                  [] OTHER -> frame[c]]
    IN  [c \in DOMAIN geocoded \cup {"cluster"} |->
            IF c = "cluster" THEN ClusterColumn(geocoded, EPS_HM, MIN_SAMPLES)
            ELSE geocoded[c]]

\* POST /process-saved; rets[k] is what the lookups give for row k.  An int
\* has no split(): _build_fallback_queries raises for it, the row is caught
\* by geocode_addresses and gets nothing
ProcessSaved(rets) ==
    /\ apc = "ready"
    /\ LET frame == LoadSavedAddresses
       IN  /\ Len(rets) = Len(frame["address"])
           /\ \A k \in 1..Len(rets) : IsIntCell(frame["address"][k]) => IsNone(rets[k])
           /\ IF Len(frame["address"]) = 0
              THEN UNCHANGED store
              ELSE store' = WriteCsv(PipelineFrame(frame, rets))
    /\ UNCHANGED <<address_data, apc>>

InitS ==
    /\ store = [address |-> <<>>]
    /\ address_data = <<>>
    /\ apc = "ready"
    /\ IdleQ
    /\ IdleG
    /\ IdleC

NextS ==
    \/ \E raw \in UNION {[1..n -> LinePool] : n \in 1..MaxLines} :
           AddAddress(raw) /\ UNCHANGED <<varsQ, varsG, varsC>>
    \/ \E addr \in LinePool : DeleteAddress(addr) /\ UNCHANGED <<varsQ, varsG, varsC>>
    \/ \E rets \in UNION {[1..n -> RowResults] : n \in 0..MaxStore} :
           ProcessSaved(rets) /\ UNCHANGED <<varsQ, varsG, varsC>>

SpecS == InitS /\ [][NextS]_vars

----------------------------------------------------------------------------
(* Properties of geocode_addresses                                         *)

\* the row just finished, when the loop is back at its head
JustFinished == pc = "loop" /\ i > 1

Failed(attempt) == attempt.outcome.kind # "location"

\* the four cells of row k
Cells(k) == <<latitudes[k], longitudes[k], cities[k], zip_codes[k]>>

\* the cells a lookup result stands for: the coordinate, the locality
\* (city, else town, else village) and the postal code of the result
CellsFor(ret) ==
    IF IsNone(ret) THEN <<None, None, "", "">>
    ELSE <<Some(ret[1].latitude), Some(ret[1].longitude), CityOf(ret[1]), ZipOf(ret[1])>>

\* C1: geocode_addresses gives one output row per input address, and the
\* coordinate, locality and postal cells of row k are the ones the lookup
\* resolved for the address of row k, whatever the earlier rows did.
C1_OneRowPerAddressInOrder ==
    /\ pc = "loop" =>
          /\ Len(latitudes) = i - 1 /\ Len(longitudes) = i - 1
          /\ Len(cities) = i - 1 /\ Len(zip_codes) = i - 1
          /\ Len(returned) = i - 1
          /\ \A k \in 1..(i - 1) : Cells(k) = CellsFor(returned[k])
    /\ pc = "geocoded" =>
          /\ \A c \in {"latitude", "longitude", "city", "zip_code"} :
                c \in DOMAIN df /\ Len(df[c]) = Rows
          /\ Len(returned) = Rows
          /\ \A k \in 1..Rows :
                <<df["latitude"][k], df["longitude"][k], df["city"][k], df["zip_code"][k]>>
                    = CellsFor(returned[k])
    /\ pc # "raised"

\* C1 witness: a frame comes back whose first row failed and whose second
\* row was resolved
C1_Witness ==
    /\ pc = "geocoded"
    /\ Rows = 2
    /\ IsNone(returned[1])
    /\ ~IsNone(returned[2])
    /\ df["latitude"][2] = Some(returned[2][1].latitude)

\* C2: a lookup that raises or returns nothing never lets an exception out of
\* geocode_addresses and never stops the loop: the next row is started, and a
\* row all of whose queries failed has no coordinate and empty locality and
\* postal cells.
C2_FailureNeverAborts ==
    /\ ~raised
    /\ pc # "raised"
    /\ JustFinished =>
          /\ Len(tried) >= 1
          /\ Len(latitudes) = i - 1
          /\ (\A a \in 1..Len(tried) : Failed(tried[a])) =>
                Cells(i - 1) = <<None, None, "", "">>
    /\ pc = "geocoded" => i = Rows + 1

\* C2 witness: every query of the first row raised an exception, the row has
\* no coordinate, and the loop is at its head with the second row to come
C2_Witness ==
    /\ JustFinished
    /\ i = 2
    /\ Rows = 2
    /\ Len(tried) = 3
    /\ \A a \in 1..3 : tried[a].outcome.kind = "exception"
    /\ Cells(1) = <<None, None, "", "">>

\* C3: every lookup call goes through the run's one rate limiter: between
\* any two consecutive lookup calls, of the same row or of two rows, at least
\* the minimum interval has passed.
C3_MinimumInterval ==
    Len(call_log) = 2 => call_log[2] - call_log[1] >= MIN_DELAY_SECONDS

\* C3 witness: the first call of a row follows the last call of the row
\* before it by exactly the minimum interval
C3_Witness ==
    /\ Len(call_log) = 2
    /\ i >= 2
    /\ Len(tried) = 1
    /\ call_log[2] = tried[1].at
    /\ call_log[2] - call_log[1] = MIN_DELAY_SECONDS

\* C4: the fallback queries of a row are submitted in list order; nothing is
\* submitted after a query that gave a location, and that location is the one
\* recorded; after each failed query the backoff passes before the next query
\* is submitted; the row is unresolved exactly when every query of its list
\* failed.
C4_FallbackOrder ==
    /\ Len(tried) <= Len(rec_queries)
    /\ \A a \in 1..Len(tried) : tried[a].query = rec_queries[a]
    /\ \A a \in 1..(Len(tried) - 1) :
          /\ Failed(tried[a])
          /\ tried[a + 1].at >= tried[a].ret + BACKOFF_SECONDS
    /\ JustFinished =>
          LET last == tried[Len(tried)]
              exhausted == Len(tried) = Len(rec_queries) /\ \A a \in 1..Len(tried) : Failed(tried[a])
          IN  /\ IsNone(latitudes[i - 1]) <=> exhausted
              /\ ~IsNone(latitudes[i - 1]) =>
                    /\ ~Failed(last)
                    /\ Cells(i - 1) = CellsFor(Some(last.outcome.location))

\* C4 witness: a row with three queries was resolved by its third query,
\* after an exception and an empty result
C4_Witness ==
    /\ JustFinished
    /\ Len(rec_queries) = 3
    /\ Len(tried) = 3
    /\ tried[1].outcome.kind = "exception"
    /\ tried[2].outcome.kind = "empty"
    /\ ~IsNone(latitudes[i - 1])

----------------------------------------------------------------------------
(* Properties of _build_fallback_queries                                   *)

NoDuplicates(qs) == \A a, b \in 1..Len(qs) : a # b => qs[a] # qs[b]

\* C5: the list returned for a non-empty address holds no two equal queries.
C5_Deduplicated ==
    qpc = "built" => NoDuplicates(queries)

\* C6: the first element of the list is the address itself, unmodified, and
\* the list has between one and three elements.
C6_FirstIsOriginal ==
    qpc = "built" =>
        /\ Len(queries) \in 1..3
        /\ queries[1] = address

\* C6 witness: three queries were built for an address that starts with a blank
C6_Witness ==
    /\ qpc = "built"
    /\ Len(queries) = 3
    /\ address[1] = " "

\* the country names of the specification, compared without regard to case
CountryNames ==
    { <<"u","s","a">>, <<"u","s">>,
      <<"u","n","i","t","e","d"," ","s","t","a","t","e","s">> }

NamesCountry(addr) ==
    \E k \in 1..Len(Parts(addr)) : StrLower(Parts(addr)[k]) \in CountryNames

\* C7: when a trimmed comma-part of the address is a country token, in any
\* case, the list is the original address alone.
C7_CountrySuppression ==
    (qpc = "built" /\ NamesCountry(address)) => queries = <<address>>

\* C7 witness: a lower-case country part after a comma and a blank
C7_Witness ==
    /\ qpc = "built"
    /\ Len(Parts(address)) >= 2
    /\ Parts(address)[Len(Parts(address))] = <<"u","s">>
    /\ address[Len(address) - 2] = " "
    /\ queries = <<address>>

----------------------------------------------------------------------------
(* Properties of the clustering                                            *)

\* the number of points that carry label l
Population(lab, l) == Cardinality({k \in 1..Len(lab) : lab[k] = l})

\* two labellings group the points alike: the same noise points, and two
\* points share a cluster in one exactly when they do in the other
SamePartition(l1, l2) ==
    /\ \A a \in 1..Len(l1) : (l1[a] = 0 - 1) <=> (l2[a] = 0 - 1)
    /\ \A a, b \in 1..Len(l1) : (l1[a] = l1[b]) <=> (l2[a] = l2[b])

\* the same, for the core points alone
SameCorePartition(l1, l2) ==
    LET core == {k \in 1..Len(points) : IsCore(points, EPS_HM, min_samples, k)}
    IN  \A a, b \in core : (l1[a] = l1[b]) <=> (l2[a] = l2[b])

SameNoise(l1, l2) == \A a \in 1..Len(l1) : (l1[a] = 0 - 1) <=> (l2[a] = 0 - 1)

EveryClusterPopulated ==
    \A k \in 1..Len(labels) :
        labels[k] >= 0 => Population(labels, labels[k]) >= min_samples

C9_PartitionIndependentOfOrder ==
    cpc = "done" => SamePartition(labels, FitPredict(points, EPS_HM, min_samples))

\* C9, amended: the noise points and the grouping of the core points are the
\* same for every order; with min_samples no larger than the default of 3 the
\* whole partition is.
C9_PartitionWithinDefault ==
    cpc = "done" =>
        LET ref == FitPredict(points, EPS_HM, min_samples)
        IN  /\ SameNoise(labels, ref)
            /\ SameCorePartition(labels, ref)
            /\ min_samples <= MIN_SAMPLES => SamePartition(labels, ref)

\* C9 witness: two clusters, found in the opposite of the index order, with a
\* point that is not core in one of them
C9_Witness ==
    /\ cpc = "done"
    /\ min_samples = MIN_SAMPLES
    /\ label_num = 2
    /\ labels[1] = 1
    /\ labels[Len(labels)] = 0
    /\ \E k \in 1..Len(labels) :
          labels[k] >= 0 /\ ~IsCore(points, EPS_HM, min_samples, k)

\* the coordinates the lookups gave, in row order, rows without result left out
RECURSIVE ResolvedCoords(_)
ResolvedCoords(rets) ==
    IF rets = <<>> THEN <<>>
    ELSE LET rest == ResolvedCoords(SubSeq(rets, 1, Len(rets) - 1))
             ret == rets[Len(rets)]
         IN  IF IsNone(ret) THEN rest
             ELSE Append(rest, [latitude |-> ret[1].latitude, longitude |-> ret[1].longitude])

\* the number of rows up to row k that a lookup resolved
ResolvedUpTo(k) == Cardinality({j \in 1..k : ~IsNone(returned[j])})

\* C10, as claimed: after the run a row for which every query failed has no
\* coordinate and its cluster id is absent, never written.
C10_UnresolvedClusterAbsent ==
    pc = "clustered" =>
        \A k \in 1..Rows :
            IsNone(returned[k]) =>
                /\ IsNone(df["latitude"][k]) /\ IsNone(df["longitude"][k])
                /\ IsNone(df["cluster"][k])

\* C10, amended: after the run a row has a non-negative cluster id only if it
\* has a coordinate; a row for which every query failed has no coordinate, is
\* not part of the clustering input, and detect_clusters writes its cluster id
\* as -1.
C10_UnresolvedClusterNoise ==
    pc = "clustered" =>
        /\ Len(df["cluster"]) = Rows
        /\ \A k \in 1..Rows :
              /\ IsNone(returned[k]) =>
                    /\ IsNone(df["latitude"][k]) /\ IsNone(df["longitude"][k])
                    /\ df["cluster"][k] = Some(0 - 1)
              /\ (~IsNone(df["cluster"][k]) /\ df["cluster"][k][1] >= 0) =>
                    (~IsNone(df["latitude"][k]) /\ ~IsNone(df["longitude"][k]))
        /\ \A coords \in {ResolvedCoords(returned)} :
           \A lab \in {FitPredict(coords, EPS_HM, MIN_SAMPLES)} :
              \A k \in 1..Rows :
                 ~IsNone(returned[k]) => df["cluster"][k] = Some(lab[ResolvedUpTo(k)])

\* C10 witness: every query of the first row failed, the second row was
\* resolved, and the clustering has run
C10_Witness ==
    /\ pc = "clustered"
    /\ Rows = 2
    /\ IsNone(returned[1])
    /\ ~IsNone(returned[2])
    /\ df["cluster"][1] = Some(0 - 1)
    /\ ~IsNone(df["latitude"][2])

----------------------------------------------------------------------------
(* Properties of the density label                                         *)

\* the number of records sharing the cluster_id of record k
PopulationOf(frame, k) ==
    Cardinality({j \in 1..Len(frame["cluster"]) : frame["cluster"][j] = frame["cluster"][k]})

\* the label the priority order gives record k
LabelByPriority(frame, k) ==
    IF "latitude" \notin DOMAIN frame \/ IsNone(frame["latitude"][k]) THEN NOT_PROCESSED
    ELSE IF frame["cluster"][k] = Some(0 - 1) THEN "Isolated"
    ELSE IF PopulationOf(frame, k) >= 10 THEN "High"
    ELSE IF PopulationOf(frame, k) >= 5 THEN "Medium"
    ELSE "Low"

\* C11: the label of every record is decided in this order: no coordinate
\* gives Not processed; otherwise cluster_id -1 gives Isolated; otherwise a
\* population of 10 or more gives High, of 5 to 9 Medium, of less than 5 Low,
\* the population being the number of records with the record's cluster_id;
\* neither the coordinates nor the position of the record change the label
C11_DensityLabelByPriority ==
    apc = "viewed" =>
        /\ Len(address_data) = Len(store["address"])
        /\ \A k \in 1..Len(address_data) :
               address_data[k].density = LabelByPriority(store, k)

\* a view with High, Medium, Isolated and Not processed records, where two
\* High records have different coordinates
C11_Witness ==
    /\ apc = "viewed"
    /\ \A l \in {"High", "Medium", "Isolated", NOT_PROCESSED} :
           \E k \in 1..Len(address_data) : address_data[k].density = l
    /\ \E k, j \in 1..Len(address_data) :
           /\ address_data[k].density = "High"
           /\ address_data[j].density = "High"
           /\ store["latitude"][k] # store["latitude"][j]

----------------------------------------------------------------------------
(* Properties of a request that runs the pipeline                          *)

\* the state of record k in the record state machine, read from the data
RecordState(k) ==
    IF apc = "viewed" /\ k <= Len(address_data) THEN "Labeled"
    ELSE IF k <= Len(returned)
         THEN IF IsNone(returned[k]) THEN "Unresolved"
              ELSE IF "cluster" \in DOMAIN df THEN "Clustered" ELSE "Resolved"
         ELSE IF k = i /\ pc \in {"query", "sleep"} THEN "Querying" ELSE "Created"

\* the transitions of the record state machine
RecordStep(s, t) ==
    \/ s = t
    \/ s = "Created" /\ t = "Querying"
    \/ s = "Querying" /\ t \in {"Resolved", "Unresolved"}
    \/ s = "Resolved" /\ t = "Clustered"
    \/ s = "Clustered" /\ t = "Labeled"
    \/ s = "Unresolved" /\ t = "Labeled"

AllLabeled == \A k \in 1..Rows : RecordState(k) = "Labeled"

\* every record moves along the transitions of the state machine only
OnlyRecordSteps ==
    [][\A k \in 1..Rows : RecordStep(RecordState(k), RecordState(k)')]_vars

\* no record is clustered before the lookups of all records are over
ClusteredAfterAllResolved ==
    []((\E k \in 1..Rows : RecordState(k) = "Clustered") => Len(returned) = Rows)

----------------------------------------------------------------------------
(* Properties of the saved-address store                                   *)

\* C13: starting from an empty store, after any sequence of add_address,
\* delete_address and process_saved requests the saved file never holds two
\* rows with the same address string
C13_NoTwoRowsSameAddress ==
    \A j, k \in 1..Len(store["address"]) :
        j # k => store["address"][j] # store["address"][k]

====
